---- MODULE Spec2Model ----
(***************************************************************************)
(* Model of backend/app/services/ml/price_predictor.py: the ensemble       *)
(* forecaster (predict_price), its summary projection                      *)
(* (get_prediction_summary), the model comparison (compare_models) and     *)
(* the confidence scorer (_calculate_confidence_score).                    *)
(*                                                                         *)
(* Floats are fixed-point integers counting 1/Scale units; NaN is a        *)
(* distinguished value that the arithmetic propagates and that every       *)
(* comparison answers FALSE on, as IEEE-754 does.  The statsmodels fits    *)
(* are external: each fit either raises or returns a forecast drawn from   *)
(* a bounded family.                                                       *)
(***************************************************************************)
EXTENDS Integers, Sequences, FiniteSets, TLC

VARIABLES pc, op, steps, live_price, historical, orders, path, models,
          final_fc, lower_bound, upper_bound, forecast_std,
          accuracy_metrics, backtest, result, score_call, earlier

vars == <<pc, op, steps, live_price, historical, orders, path, models,
          final_fc, lower_bound, upper_bound, forecast_std,
          accuracy_metrics, backtest, result, score_call, earlier>>

-----------------------------------------------------------------------------
(* Bounds of the model.                                                    *)

MaxPrice == 2
MaxEst == 2
MaxSteps == 2
MaxLen == 120
TicksPerDay == 2
LastDay == 200

(* Program constants.                                                      *)

WindowSize == 120
SummarySteps == 5
MaWindow == 5

(* One currency unit in fixed-point units.                                 *)
Scale == 10 * 10

NaN == 0 - (2 ^ 30)
None == [none |-> TRUE]

-----------------------------------------------------------------------------
(* Float arithmetic.                                                       *)

IsNaN(x) == x = NaN

Real(n) == n * Scale

FAdd(a, b) == IF IsNaN(a) \/ IsNaN(b) THEN NaN ELSE a + b

FSub(a, b) == IF IsNaN(a) \/ IsNaN(b) THEN NaN ELSE a - b

(* a * k for a plain number k *)
FTimes(a, k) == IF IsNaN(a) THEN NaN ELSE a * k

(* a / k for a plain number k > 0 *)
FOver(a, k) == IF IsNaN(a) THEN NaN ELSE a \div k

(* product and quotient of two fixed-point values *)
FMul(a, b) == IF IsNaN(a) \/ IsNaN(b) THEN NaN ELSE (a * b) \div Scale

FDiv(a, b) == IF IsNaN(a) \/ IsNaN(b) \/ b = 0 THEN NaN ELSE (a * Scale) \div b

FLt(a, b) == ~IsNaN(a) /\ ~IsNaN(b) /\ a < b

FAbs(a) == IF IsNaN(a) THEN NaN ELSE IF a < 0 THEN 0 - a ELSE a

(* Python's builtin min(a, b) and max(a, b): the first argument is kept    *)
(* unless the second compares strictly smaller (larger).                   *)
PyMin(a, b) == IF FLt(b, a) THEN b ELSE a

PyMax(a, b) == IF FLt(a, b) THEN b ELSE a

RECURSIVE IsqrtIter(_, _, _)
IsqrtIter(n, lo, hi) ==
    IF lo >= hi THEN lo
    ELSE LET mid == (lo + hi + 1) \div 2
         IN  IF mid * mid <= n THEN IsqrtIter(n, mid, hi)
             ELSE IsqrtIter(n, lo, mid - 1)

FSqrt(a) ==
    IF IsNaN(a) \/ a < 0 THEN NaN
    ELSE IsqrtIter(a, 0, IF a < 46340 THEN a ELSE 46340)

RECURSIVE SumRange(_, _, _)
SumRange(s, lo, hi) ==
    IF lo > hi THEN 0
    ELSE IF lo = hi THEN s[lo]
    ELSE SumRange(s, lo, (lo + hi) \div 2) + SumRange(s, (lo + hi) \div 2 + 1, hi)

HasNaN(s) == \E i \in 1..Len(s) : IsNaN(s[i])

FSum(s) == IF HasNaN(s) THEN NaN ELSE SumRange(s, 1, Len(s))

(* np.mean / Series.mean: NaN on an empty sequence *)
FMean(s) == IF s = <<>> THEN NaN ELSE FOver(FSum(s), Len(s))

SqDev(s, m) == [i \in 1..Len(s) |-> (s[i] - m) * (s[i] - m)]

(* standard deviation with ddof degrees of freedom removed: np.std has     *)
(* ddof = 0, Series.std has ddof = 1 and is NaN below two points.  Squared *)
(* deviations are in 1/Scale^2 units, so the root is back in 1/Scale.      *)
FStd(s, ddof) ==
    IF Len(s) - ddof <= 0 \/ HasNaN(s) THEN NaN
    ELSE FSqrt(SumRange(SqDev(s, SumRange(s, 1, Len(s)) \div Len(s)), 1, Len(s))
               \div (Len(s) - ddof))

SeqTail(s, k) ==
    IF Len(s) <= k THEN s ELSE SubSeq(s, Len(s) - k + 1, Len(s))

Prices(h) == [i \in 1..Len(h) |-> h[i].price]

-----------------------------------------------------------------------------
(* _calculate_confidence_score                                             *)

(* lines 266-267 *)
UncertaintyPenalty(fstd) == PyMin(FTimes(FMean(fstd), 5), Real(30))

(* line 271 *)
VolatilityPenalty(volatility) == PyMin(FTimes(volatility, 2), Real(20))

MapePenalty_Uncapped(metrics) ==
    IF metrics # None THEN FOver(metrics.mape, 2) ELSE 0

(* lines 275-278: nothing is subtracted without accuracy metrics *)
MapePenalty(metrics) ==
    IF metrics # None THEN PyMin(FOver(metrics.mape, 2), Real(30)) ELSE 0

ClampScore_NoCeiling(score) == PyMax(Real(0), score)

(* line 280 *)
ClampScore(score) == PyMax(Real(0), PyMin(Real(100), score))

CalculateConfidenceScore_NoVolatility(fstd, volatility, metrics) ==
    ClampScore(FSub(FSub(Real(100), UncertaintyPenalty(fstd)), MapePenalty(metrics)))

CalculateConfidenceScore(fstd, volatility, metrics) ==
    ClampScore(FSub(FSub(FSub(Real(100), UncertaintyPenalty(fstd)),
                         VolatilityPenalty(volatility)),
                    MapePenalty(metrics)))

-----------------------------------------------------------------------------
(* Inputs: what the provider, the clock, the bundle storage and the        *)
(* statsmodels fits can hand to the program.                               *)

Ops == {"predict_price", "get_prediction_summary", "compare_models"}

Period == 2

ProviderLens == {1, 30, 119, MaxLen}

NowOffsets == {0 - 1, 0, 1}

DefaultOrder == <<5, 1, 0>>
DefaultSeasonal == <<1, 1, 1, 5>>

(* get_historical: a date-indexed closing-price series, one point per day, *)
(* sorted by date, the newest dated LastDay.                                *)
ProviderSeries(n, f) ==
    [k \in 1..n |-> [ts |-> (LastDay - n + k) * TicksPerDay,
                     price |-> Real(f[k % Period])]]

PriceShapes == [0..(Period - 1) -> 1..MaxPrice]

(* A fitted model's forecast object for a horizon of n steps:               *)
(* predicted_mean and the two columns of conf_int.                          *)
ForecastObj(b, shape, n) ==
    LET drift == IF shape = 1 THEN 10 ELSE 0 - 10
        wl == IF shape = 1 THEN 50 ELSE 20
        wu == IF shape = 1 THEN 50 ELSE 80
        mean == [i \in 1..n |-> Real(b) + drift * (i - 1)]
    IN  [predicted_mean |-> mean,
         ci_lower |-> [i \in 1..n |-> mean[i] - wl * i],
         ci_upper |-> [i \in 1..n |-> mean[i] + wu * i]]

ArimaObjs(n) == {ForecastObj(b, 1, n) : b \in 1..MaxEst}

SarimaObjs(n) == {ForecastObj(b, 2, n) : b \in 1..MaxEst}

-----------------------------------------------------------------------------
(* predict_price, lines 35-37: historical.loc[now] = live_price, then      *)
(* historical.tail(120).  Assigning to an existing label overwrites it,     *)
(* assigning to a new label appends a row at the end.                       *)

LocAssign(h, t, v) ==
    IF \E i \in 1..Len(h) : h[i].ts = t
    THEN [i \in 1..Len(h) |-> IF h[i].ts = t THEN [ts |-> t, price |-> v] ELSE h[i]]
    ELSE Append(h, [ts |-> t, price |-> v])

AppendLive(h, t, v) == SeqTail(LocAssign(h, t, v), WindowSize)

(* lines 39-49: the model-order bundle *)
Bundles == {"missing", "corrupt", "not_a_mapping", "both", "order_only",
            "seasonal_only", "empty"}

FetchBundles == {"missing", "both"}

BundleOrder == <<2, 1, 2>>
BundleSeasonal == <<0, 1, 1, 7>>

LoadOrders_PartialResets(bundle) ==
    IF bundle = "both"
    THEN [arima_order |-> BundleOrder, sarima_seasonal |-> BundleSeasonal]
    ELSE [arima_order |-> DefaultOrder, sarima_seasonal |-> DefaultSeasonal]

LoadOrders(bundle) ==
    IF bundle \in {"missing", "corrupt", "not_a_mapping"}
    THEN [arima_order |-> DefaultOrder, sarima_seasonal |-> DefaultSeasonal]
    ELSE [arima_order |-> IF bundle \in {"both", "order_only"}
                          THEN BundleOrder ELSE DefaultOrder,
          sarima_seasonal |-> IF bundle \in {"both", "seasonal_only"}
                              THEN BundleSeasonal ELSE DefaultSeasonal]

EnsembleMean_FirstOnly(a, s) == [i \in 1..Len(a) |-> a[i]]

(* lines 72-80: the ensemble of the two forecasts *)
EnsembleMean(a, s) == [i \in 1..Len(a) |-> FOver(FAdd(a[i], s[i]), 2)]

EnsembleStd(a, s) == [i \in 1..Len(a) |-> FStd(<<a[i], s[i]>>, 0)]

FallbackTrend_Undamped(h) ==
    FSub(h[Len(h)].price, FMean(Prices(SeqTail(h, MaWindow))))

(* lines 84-97: the trend-projection fallback *)
FallbackTrend(h) ==
    LET last_price == h[Len(h)].price
        ma == FMean(Prices(SeqTail(h, MaWindow)))
    IN  FOver(FSub(last_price, ma), 10)

FallbackForecast(h, n) ==
    [i \in 1..n |-> FAdd(h[Len(h)].price, FTimes(FallbackTrend(h), i))]

HistoricalStd(h) == FStd(Prices(h), 1)

(* 1.96 * std *)
FallbackHalfWidth(std) == FOver(FTimes(std, 196), 100)

FallbackLower(fc, std) == [i \in 1..Len(fc) |-> FSub(fc[i], FallbackHalfWidth(std))]

FallbackUpper(fc, std) == [i \in 1..Len(fc) |-> FAdd(fc[i], FallbackHalfWidth(std))]

FallbackStd(std, n) == [i \in 1..n |-> std]

-----------------------------------------------------------------------------
(* lines 101-132: the backtest *)

TrainSize_RoundUp(n) == (n * 8 + 9) \div 10

(* int(len(historical) * 0.8) *)
TrainSize(n) == (n * 8) \div 10

TrainOf(h) == SubSeq(h, 1, TrainSize(Len(h)))

TestOf(h) == SubSeq(h, TrainSize(Len(h)) + 1, Len(h))

(* forecast(steps = n) of a model refit on the training data *)
TestForecast(b, n) == [i \in 1..n |-> Real(b)]

SqErr(t, f) == [i \in 1..Len(t) |-> FTimes(FSub(t[i], f[i]), FSub(t[i], f[i]))]

AbsErr(t, f) == [i \in 1..Len(t) |-> FAbs(FSub(t[i], f[i]))]

PctErr(t, f) == [i \in 1..Len(t) |-> FDiv(FAbs(FSub(t[i], f[i])), FAbs(t[i]))]

AccuracyMetrics(test, arima_test_fc, sarima_test_fc) ==
    LET ensemble_test_fc == EnsembleMean(arima_test_fc, sarima_test_fc)
        t == Prices(test)
    IN  [rmse |-> FSqrt(FMean(SqErr(t, ensemble_test_fc))),
         mae |-> FMean(AbsErr(t, ensemble_test_fc)),
         mape |-> FTimes(FMean(PctErr(t, ensemble_test_fc)), 100),
         test_size |-> Len(test)]

-----------------------------------------------------------------------------
(* lines 134-191: dates, volatility, trend and the response *)

(* strftime("%Y-%m-%d") and str(d).split()[0]: the calendar day of a       *)
(* timestamp *)
DateOf(ts) == ts \div TicksPerDay

(* timestamp + timedelta(days = d) *)
PlusDays(ts, d) == ts + d * TicksPerDay

FutureDates_FromToday(h, n) ==
    [i \in 1..n |-> DateOf(PlusDays(h[Len(h)].ts, i - 1))]

FutureDates(h, n) == [i \in 1..n |-> DateOf(PlusDays(h[Len(h)].ts, i))]

(* historical.pct_change().dropna(): prices are positive, so every change *)
(* after the first row is a number                                        *)
Returns(h) ==
    [i \in 1..(Len(h) - 1) |-> ((h[i + 1].price - h[i].price) * Scale) \div h[i].price]

(* returns.std() * np.sqrt(252) * live_price *)
Volatility(h, live) ==
    FMul(FMul(FStd(Returns(h), 1), FSqrt(252 * Scale * Scale)), live)

RecentChange(h, live) ==
    IF Len(h) > 10
    THEN FTimes(FDiv(FSub(live, h[Len(h) - 9].price), h[Len(h) - 9].price), 100)
    ELSE 0

TrendDirection(fc, live) == IF FLt(live, fc[Len(fc)]) THEN "up" ELSE "down"

(* _calculate_indicators, lines 214-219 and 229: the 14-period RSI.        *)
RsiWindow == 14

Inf == 2 ^ 30

(* Series.diff(): the first entry has no predecessor *)
Diff(p) == [i \in 1..Len(p) |-> IF i = 1 THEN NaN ELSE p[i] - p[i - 1]]

(* delta.where(delta > 0, 0): a NaN compares false and is replaced too *)
Gains(delta) == [i \in 1..Len(delta) |-> IF FLt(0, delta[i]) THEN delta[i] ELSE 0]

(* -delta.where(delta < 0, 0) *)
Losses(delta) == [i \in 1..Len(delta) |-> IF FLt(delta[i], 0) THEN 0 - delta[i] ELSE 0]

(* rolling(window=w).mean(): NaN until w observations are in the window *)
RollingMean(s, w) ==
    [i \in 1..Len(s) |-> IF i < w THEN NaN ELSE SumRange(s, i - w + 1, i) \div w]

(* element-wise float arithmetic of a Series: x / 0 is inf, 0 / 0 is NaN,  *)
(* x / inf is 0; nothing raises                                            *)
NpAdd(a, b) ==
    IF IsNaN(a) \/ IsNaN(b) THEN NaN
    ELSE IF a = Inf \/ b = Inf THEN Inf
    ELSE a + b

NpDiv(a, b) ==
    IF IsNaN(a) \/ IsNaN(b) THEN NaN
    ELSE IF b = Inf THEN (IF a = Inf THEN NaN ELSE 0)
    ELSE IF a = Inf THEN Inf
    ELSE IF b = 0 THEN (IF a = 0 THEN NaN ELSE IF a > 0 THEN Inf ELSE 0 - Inf)
    ELSE (a * Scale) \div b

(* line 219: 100 - (100 / (1 + rs)) *)
RsiValue(rs) == FSub(Real(100), NpDiv(Real(100), NpAdd(Real(1), rs)))

FillNa_KeepsNaN(s) == s

(* line 229: fillna(0) *)
FillNa(s) == [i \in 1..Len(s) |-> IF IsNaN(s[i]) THEN 0 ELSE s[i]]

AvgGain(p) == RollingMean(Gains(Diff(p)), RsiWindow)

AvgLoss(p) == RollingMean(Losses(Diff(p)), RsiWindow)

Rsi(p) ==
    FillNa([i \in 1..Len(p) |-> RsiValue(NpDiv(AvgGain(p)[i], AvgLoss(p)[i]))])

(* lines 232-245, the fields of the indicators the RSI shares its index with *)
CalculateIndicators(h) ==
    [dates |-> [i \in 1..Len(h) |-> DateOf(h[i].ts)],
     rsi |-> Rsi(Prices(h))]

HistoricalList(h) == [i \in 1..Len(h) |-> [date |-> DateOf(h[i].ts), price |-> h[i].price]]

ForecastList(dates, fc, lo, up, sd, n) ==
    [i \in 1..n |-> [date |-> dates[i], price |-> fc[i], lower_bound |-> lo[i],
                     upper_bound |-> up[i], std_dev |-> sd[i]]]

Response(h, live, n, fc, lo, up, sd, metrics, ord, vol) ==
    [live_price |-> live,
     historical |-> HistoricalList(h),
     forecast |-> ForecastList(FutureDates(h, n), fc, lo, up, sd, n),
     predicted_t1 |-> fc[1],
     predicted_t10 |-> fc[Len(fc)],
     trend |-> [direction |-> TrendDirection(fc, live),
                percentage_change |-> FTimes(FDiv(FSub(fc[Len(fc)], live), live), 100),
                recent_10d_change |-> RecentChange(h, live)],
     volatility |-> vol,
     confidence_score |-> CalculateConfidenceScore(sd, vol, metrics),
     accuracy_metrics |-> metrics,
     model_info |-> [arima_order |-> ord.arima_order,
                     sarima_seasonal_order |-> ord.sarima_seasonal]]

(* get_prediction_summary, lines 295-302 *)
Summary_WeekIsFirst(full) ==
    [current_price |-> full.live_price,
     next_day_prediction |-> full.predicted_t1,
     week_prediction |-> full.predicted_t1,
     trend |-> full.trend.direction,
     confidence |-> full.confidence_score]

Summary(full) ==
    [current_price |-> full.live_price,
     next_day_prediction |-> full.predicted_t1,
     week_prediction |-> full.predicted_t10,
     trend |-> full.trend.direction,
     confidence |-> full.confidence_score]

(* compare_models, lines 340-355 *)
Comparison(live, arima_fc, sarima_fc) ==
    [live_price |-> live,
     arima_prediction |-> [t1 |-> arima_fc[1], t10 |-> arima_fc[Len(arima_fc)]],
     sarima_prediction |-> [t1 |-> sarima_fc[1], t10 |-> sarima_fc[Len(sarima_fc)]]]

-----------------------------------------------------------------------------
(* The state machine.                                                      *)

Unbound == [unbound |-> TRUE]

Init ==
    /\ pc = "idle"
    /\ op = "none"
    /\ steps = 0
    /\ live_price = 0
    /\ historical = <<>>
    /\ orders = None
    /\ path = "none"
    /\ models = None
    /\ final_fc = <<>>
    /\ lower_bound = <<>>
    /\ upper_bound = <<>>
    /\ forecast_std = <<>>
    /\ accuracy_metrics = Unbound
    /\ backtest = None
    /\ result = None
    /\ score_call = None
    /\ earlier = None

StepsOf(o) == IF o = "get_prediction_summary" THEN {SummarySteps} ELSE 1..MaxSteps

(* lines 29-49 and 316-330: both provider calls return, the live price is  *)
(* appended, the window is cut and the orders are loaded.                   *)
FetchFrom(lens, bundles) ==
    /\ pc = "idle"
    /\ \E o \in Ops, n \in lens, f \in PriceShapes, lp \in 1..MaxPrice,
          off \in NowOffsets, bundle \in bundles :
         \E st \in StepsOf(o), provided \in {ProviderSeries(n, f)} :
            /\ op' = o
            /\ steps' = st
            /\ live_price' = Real(lp)
            /\ historical' = AppendLive(provided, LastDay * TicksPerDay + off,
                                        Real(lp))
            /\ orders' = [bundle |-> bundle] @@ LoadOrders(bundle)
    /\ pc' = "loaded"
    /\ result' = None
    /\ UNCHANGED <<path, models, final_fc, lower_bound, upper_bound, forecast_std,
                   accuracy_metrics, backtest, score_call,
                   earlier>>

Fetch == FetchFrom(ProviderLens, FetchBundles)

(* the same lines, over every state of the bundle storage *)
FetchAnyBundle == FetchFrom({30}, Bundles)

(* ARIMA(data, order) and SARIMAX(data, order, seasonal_order): the orders *)
(* the two models are built with                                            *)
BuiltWith(ord) == [order |-> ord.arima_order, seasonal_order |-> ord.sarima_seasonal]

(* get_historical or get_live_price raises: nothing catches it *)
ProviderFail ==
    /\ pc = "idle"
    /\ \E o \in Ops, who \in {"get_historical", "get_live_price"} :
         /\ op' = o
         /\ result' = [status |-> "raised", error |-> who]
    /\ pc' = "done"
    /\ UNCHANGED <<steps, live_price, historical, orders, path, models, final_fc,
                   lower_bound, upper_bound, forecast_std, accuracy_metrics,
                   backtest, score_call,
                   earlier>>

(* lines 51-80: both fits and both forecast extractions succeed *)
FitOk ==
    /\ pc = "loaded"
    /\ op # "compare_models"
    /\ \E a \in ArimaObjs(steps), s \in SarimaObjs(steps) :
         /\ models' = [arima |-> a, sarima |-> s] @@ BuiltWith(orders)
         /\ final_fc' = EnsembleMean(a.predicted_mean, s.predicted_mean)
         /\ lower_bound' = EnsembleMean(a.ci_lower, s.ci_lower)
         /\ upper_bound' = EnsembleMean(a.ci_upper, s.ci_upper)
         /\ forecast_std' = EnsembleStd(a.predicted_mean, s.predicted_mean)
    /\ path' = "model"
    /\ pc' = "forecast"
    /\ UNCHANGED <<op, steps, live_price, historical, orders, accuracy_metrics,
                   backtest, result, score_call,
                   earlier>>

FitStages == {"arima_fit", "sarima_fit", "get_forecast"}

(* What the try block had obtained when it raised: nothing when the first *)
(* fit raised, the fitted non-seasonal model (given by the forecast it     *)
(* would produce) when a later statement raised.                           *)
Partials(stage, n) ==
    IF stage = "arima_fit" THEN {[raised |-> stage]}
    ELSE {[raised |-> stage, arima |-> a] : a \in ArimaObjs(n)}

FitFallback_SingleModel ==
    /\ pc = "loaded"
    /\ op # "compare_models"
    /\ \E stage \in FitStages : \E partial \in Partials(stage, steps) :
         /\ models' = partial @@ BuiltWith(orders)
         /\ \E fc \in {FallbackForecast(historical, steps)},
               std \in {HistoricalStd(historical)} :
              IF stage = "sarima_fit"
              THEN /\ final_fc' = partial.arima.predicted_mean
                   /\ lower_bound' = partial.arima.ci_lower
                   /\ upper_bound' = partial.arima.ci_upper
                   /\ forecast_std' = [i \in 1..steps |-> 0]
              ELSE /\ final_fc' = fc
                   /\ lower_bound' = FallbackLower(fc, std)
                   /\ upper_bound' = FallbackUpper(fc, std)
                   /\ forecast_std' = FallbackStd(std, steps)
    /\ accuracy_metrics' = None
    /\ path' = "fallback"
    /\ pc' = "forecast"
    /\ UNCHANGED <<op, steps, live_price, historical, orders, backtest, result,
                   score_call,
                   earlier>>

(* lines 82-99: something inside the try raised; the except clause assigns *)
(* all four forecast arrays from the window alone                          *)
FitFallback ==
    /\ pc = "loaded"
    /\ op # "compare_models"
    /\ \E stage \in FitStages : \E partial \in Partials(stage, steps) :
         models' = partial @@ BuiltWith(orders)
    /\ \E fc \in {FallbackForecast(historical, steps)},
          std \in {HistoricalStd(historical)} :
         /\ final_fc' = fc
         /\ lower_bound' = FallbackLower(fc, std)
         /\ upper_bound' = FallbackUpper(fc, std)
         /\ forecast_std' = FallbackStd(std, steps)
    /\ accuracy_metrics' = None
    /\ path' = "fallback"
    /\ pc' = "forecast"
    /\ UNCHANGED <<op, steps, live_price, historical, orders, backtest, result,
                   score_call,
                   earlier>>

(* lines 101-132, the refits and the metrics succeed *)
BacktestMetrics(h, a, s) ==
    IF Len(TestOf(h)) > 0
    THEN AccuracyMetrics(TestOf(h), TestForecast(a, Len(TestOf(h))),
                         TestForecast(s, Len(TestOf(h))))
    ELSE None

BacktestFailed_KeepsZeros == [rmse |-> 0, mae |-> 0, mape |-> 0, test_size |-> 0]

(* lines 130-132 *)
BacktestFailed == None

(* lines 134-191 and 293-302 *)
Returned(o, full) ==
    [status |-> "returned",
     response |-> full,
     summary |-> IF o = "get_prediction_summary" THEN Summary(full) ELSE None]

(* lines 101-191: the backtest runs to its end, then the response is built *)
BacktestOk ==
    /\ pc = "forecast"
    /\ \E a \in 1..MaxEst, s \in 1..MaxEst :
         \E m \in {BacktestMetrics(historical, a, s)},
            volatility \in {Volatility(historical, live_price)} :
            /\ accuracy_metrics' = m
            /\ \E full \in {Response(historical, live_price, steps, final_fc,
                                      lower_bound, upper_bound, forecast_std, m,
                                      orders, volatility)} :
                 result' = Returned(op, full)
    /\ backtest' = [outcome |-> IF Len(TestOf(historical)) > 0 THEN "ok" ELSE "empty",
                    refit_on |-> IF Len(TestOf(historical)) > 0
                                 THEN TrainOf(historical) ELSE <<>>,
                    test_steps |-> Len(TestOf(historical))] @@ BuiltWith(orders)
    /\ pc' = "done"
    /\ UNCHANGED <<op, steps, live_price, historical, orders, path, models, final_fc,
                   lower_bound, upper_bound, forecast_std, score_call,
                   earlier>>

BacktestStages == {"refit", "metrics"}

(* lines 101-191: a refit, a test forecast or a metric raises, the except  *)
(* clause drops the metrics, then the response is built                     *)
BacktestRaise ==
    /\ pc = "forecast"
    /\ Len(TestOf(historical)) > 0
    /\ \E stage \in BacktestStages :
         backtest' = [outcome |-> "raised", stage |-> stage,
                      refit_on |-> TrainOf(historical),
                      test_steps |-> Len(TestOf(historical))] @@ BuiltWith(orders)
    /\ accuracy_metrics' = BacktestFailed
    /\ \E volatility \in {Volatility(historical, live_price)} :
         \E full \in {Response(historical, live_price, steps, final_fc, lower_bound,
                                upper_bound, forecast_std, BacktestFailed, orders,
                                volatility)} :
            result' = Returned(op, full)
    /\ pc' = "done"
    /\ UNCHANGED <<op, steps, live_price, historical, orders, path, models, final_fc,
                   lower_bound, upper_bound, forecast_std, score_call,
                   earlier>>

(* compare_models, lines 332-355: the fits are outside any try *)
CompareOk ==
    /\ pc = "loaded"
    /\ op = "compare_models"
    /\ \E a \in ArimaObjs(steps), s \in SarimaObjs(steps) :
         /\ models' = [arima |-> a, sarima |-> s] @@ BuiltWith(orders)
         /\ result' = [status |-> "returned",
                       comparison |-> Comparison(live_price, a.predicted_mean,
                                                 s.predicted_mean)]
    /\ path' = "model"
    /\ pc' = "done"
    /\ UNCHANGED <<op, steps, live_price, historical, orders, final_fc, lower_bound,
                   upper_bound, forecast_std, accuracy_metrics, backtest, score_call,
                   earlier>>

CompareRaise ==
    /\ pc = "loaded"
    /\ op = "compare_models"
    /\ \E stage \in FitStages :
         /\ models' = [raised |-> stage] @@ BuiltWith(orders)
         /\ result' = [status |-> "raised", error |-> stage]
    /\ pc' = "done"
    /\ UNCHANGED <<op, steps, live_price, historical, orders, path, final_fc,
                   lower_bound, upper_bound, forecast_std, accuracy_metrics,
                   backtest, score_call,
                   earlier>>

(* the request is over: its locals are discarded *)
Return ==
    /\ pc = "done"
    /\ pc' = "idle"
    /\ op' = "none"
    /\ steps' = 0
    /\ live_price' = 0
    /\ historical' = <<>>
    /\ orders' = None
    /\ path' = "none"
    /\ models' = None
    /\ final_fc' = <<>>
    /\ lower_bound' = <<>>
    /\ upper_bound' = <<>>
    /\ forecast_std' = <<>>
    /\ accuracy_metrics' = Unbound
    /\ backtest' = None
    /\ result' = None
    /\ score_call' = None
    /\ earlier' = None

(* a direct call of _calculate_confidence_score *)
FloatSamples == {NaN, Real(0 - 1), 0, Real(1), Real(6), Real(10), Real(12)}

StdSamples == UNION {[1..n -> FloatSamples] : n \in 0..MaxSteps}

MapeSamples == {NaN, 0, Real(10), Real(60), Real(200)}

MetricSamples ==
    {None} \cup {[rmse |-> 0, mae |-> 0, mape |-> m, test_size |-> 24] : m \in MapeSamples}

ScoreCall ==
    /\ pc = "idle"
    /\ \E sd \in StdSamples, v \in FloatSamples, m \in MetricSamples :
         /\ score_call' = [forecast_std |-> sd, volatility |-> v, accuracy_metrics |-> m]
         /\ earlier' = earlier
         /\ result' = [status |-> "returned",
                       score |-> CalculateConfidenceScore(sd, v, m)]
    /\ op' = "_calculate_confidence_score"
    /\ pc' = "done"
    /\ UNCHANGED <<steps, live_price, historical, orders, path, models,
                   final_fc, lower_bound, upper_bound, forecast_std,
                   accuracy_metrics, backtest>>

Next ==
    \/ Fetch
    \/ ProviderFail
    \/ FitOk
    \/ FitFallback
    \/ BacktestOk
    \/ BacktestRaise
    \/ CompareOk
    \/ CompareRaise
    \/ Return
    \/ ScoreCall

Spec == Init /\ [][Next]_vars

NextAnyBundle ==
    \/ FetchAnyBundle
    \/ ProviderFail
    \/ FitOk
    \/ FitFallback
    \/ BacktestOk
    \/ BacktestRaise
    \/ CompareOk
    \/ CompareRaise
    \/ Return

SpecAnyBundle == Init /\ [][NextAnyBundle]_vars

(* _calculate_indicators called on its own.  The series is the kind the    *)
(* callers pass: one point per day, a periodic price pattern that changes  *)
(* to another pattern after point k.                                       *)
MaxExtra == 2

IndicatorLens == (RsiWindow - 1)..(RsiWindow + MaxExtra)

KinkSeries(n, k, f, g) ==
    [i \in 1..n |-> [ts |-> (LastDay - n + i) * TicksPerDay,
                     price |-> Real(IF i <= k THEN f[i % Period] ELSE g[i % Period])]]

IndicatorsCall ==
    /\ pc = "idle"
    /\ \E n \in IndicatorLens, f \in PriceShapes, g \in PriceShapes :
         \E k \in 1..n :
            \E series \in {KinkSeries(n, k, f, g)} :
               /\ historical' = series
               /\ result' = [status |-> "returned",
                             indicators |-> CalculateIndicators(series)]
    /\ op' = "_calculate_indicators"
    /\ pc' = "done"
    /\ UNCHANGED <<steps, live_price, orders, path, models, final_fc, lower_bound,
                   upper_bound, forecast_std, accuracy_metrics, backtest, score_call,
                   earlier>>

NextIndicators ==
    \/ IndicatorsCall
    \/ Return

SpecIndicators == Init /\ [][NextIndicators]_vars

(* The same request made a second time.  Nothing of the first call is     *)
(* kept by the program (its locals are gone, the provider series is built  *)
(* anew on every call and the bundle file is only read), so the second     *)
(* call sees the same provider series, live price, steps and bundle; only  *)
(* the clock has moved on, possibly into the next day.  `earlier` keeps    *)
(* what the first call returned and what the library did for it.           *)
RepeatLens == {1, 30}

SecondOffsets == NowOffsets \cup {TicksPerDay}

FetchFirst == FetchFrom(RepeatLens, FetchBundles)

Forecast == result.response.forecast

CallAgain ==
    /\ pc = "done"
    /\ op = "predict_price"
    /\ result.status = "returned"
    /\ earlier = None
    /\ \E n \in RepeatLens, f \in PriceShapes, off1 \in NowOffsets :
         \E provided \in {ProviderSeries(n, f)} :
            /\ historical = AppendLive(provided, LastDay * TicksPerDay + off1, live_price)
            /\ \E off2 \in SecondOffsets :
                 /\ off2 > off1
                 /\ historical' = AppendLive(provided, LastDay * TicksPerDay + off2,
                                             live_price)
    /\ earlier' = [forecast |-> Forecast, prices |-> Prices(historical),
                   models |-> models]
    /\ pc' = "loaded"
    /\ path' = "none"
    /\ models' = None
    /\ final_fc' = <<>>
    /\ lower_bound' = <<>>
    /\ upper_bound' = <<>>
    /\ forecast_std' = <<>>
    /\ accuracy_metrics' = Unbound
    /\ backtest' = None
    /\ result' = None
    /\ UNCHANGED <<op, steps, live_price, orders, score_call>>

(* statsmodels has no randomness: the same prices and orders give the same *)
(* fit, or the same exception                                              *)
SameFit(Fit) ==
    /\ Fit
    /\ (earlier # None /\ Prices(historical) = earlier.prices)
         => models' = earlier.models

NextTwoCalls ==
    \/ FetchFirst
    \/ ProviderFail
    \/ SameFit(FitOk)
    \/ SameFit(FitFallback)
    \/ BacktestOk
    \/ BacktestRaise
    \/ CompareOk
    \/ CompareRaise
    \/ CallAgain
    \/ Return

SpecTwoCalls == Init /\ [][NextTwoCalls]_vars

-----------------------------------------------------------------------------
(* Properties.                                                             *)

ScoreReturned == pc = "done" /\ op = "_calculate_confidence_score"

PredictReturned ==
    /\ pc = "done"
    /\ op \in {"predict_price", "get_prediction_summary"}
    /\ result.status = "returned"

InRange(v) == ~IsNaN(v) /\ 0 <= v /\ v <= Real(100)

(* C1: the confidence score is a number in [0, 100], both as the value of  *)
(* _calculate_confidence_score on any dispersion sequence, volatility and  *)
(* accuracy metrics (NaN and negative values included) and as the          *)
(* confidence_score field of every response of predict_price.              *)
C1_ConfidenceInRange ==
    /\ ScoreReturned => InRange(result.score)
    /\ PredictReturned => InRange(result.response.confidence_score)

(* a call whose penalties sum to a negative number: the ceiling acts *)
C1_Witness ==
    /\ ScoreReturned
    /\ score_call.volatility = Real(0 - 1)
    /\ score_call.forecast_std = <<0>>
    /\ score_call.accuracy_metrics = None
    /\ result.score = Real(100)

Min2(a, b) == IF a <= b THEN a ELSE b

Max2(a, b) == IF a >= b THEN a ELSE b

Numeric(sd, v, m) ==
    /\ sd # <<>>
    /\ ~HasNaN(sd)
    /\ ~IsNaN(v)
    /\ m # None => ~IsNaN(m.mape)

ExpectedScore(sd, v, m) ==
    LET B == IF m # None THEN Min2(m.mape \div 2, Real(30)) ELSE 0
    IN  Max2(0, Min2(Real(100),
             Real(100) - Min2(5 * (SumRange(sd, 1, Len(sd)) \div Len(sd)), Real(30))
                       - Min2(2 * v, Real(20)) - B))

(* C5: on numeric inputs the score is                                      *)
(* clamp(100 - min(5 * mean(dispersion), 30) - min(2 * volatility, 20) - B,*)
(* 0, 100) with B = min(MAPE / 2, 30) when metrics are present and 0       *)
(* otherwise; zero dispersion, volatility and MAPE give exactly 100.       *)
C5_ScoreFormula ==
    /\ (ScoreReturned /\ Numeric(score_call.forecast_std, score_call.volatility,
                                 score_call.accuracy_metrics))
         => /\ result.score = ExpectedScore(score_call.forecast_std,
                                            score_call.volatility,
                                            score_call.accuracy_metrics)
            /\ (/\ \A i \in 1..Len(score_call.forecast_std) :
                      score_call.forecast_std[i] = 0
                /\ score_call.volatility = 0
                /\ score_call.accuracy_metrics # None
                /\ score_call.accuracy_metrics.mape = 0)
                 => result.score = Real(100)
    /\ (PredictReturned /\ Numeric(forecast_std, result.response.volatility,
                                   result.response.accuracy_metrics))
         => result.response.confidence_score
              = ExpectedScore(forecast_std, result.response.volatility,
                              result.response.accuracy_metrics)

(* all three penalties act below their caps: 100 - 5 - 2 - 5 *)
C5_Witness ==
    /\ ScoreReturned
    /\ score_call.forecast_std = <<Real(1)>>
    /\ score_call.volatility = Real(1)
    /\ score_call.accuracy_metrics # None
    /\ score_call.accuracy_metrics.mape = Real(10)
    /\ result.score = Real(88)

Saturating ==
    /\ ScoreReturned
    /\ Numeric(score_call.forecast_std, score_call.volatility,
               score_call.accuracy_metrics)
    /\ SumRange(score_call.forecast_std, 1, Len(score_call.forecast_std))
         \div Len(score_call.forecast_std) >= Real(6)
    /\ score_call.volatility >= Real(10)
    /\ score_call.accuracy_metrics # None
    /\ score_call.accuracy_metrics.mape >= Real(60)

(* C6 as stated: inputs saturating the three caps score 0.0 *)
C6_SaturatedIsZero == Saturating => result.score = 0

(* C6: inputs saturating the three caps (mean dispersion >= 6, volatility  *)
(* >= 10, MAPE >= 60 with metrics present) score 100 - 30 - 20 - 30 = 20.  *)
C6_SaturatedIsTwenty == Saturating => result.score = Real(20)

C6_Witness ==
    /\ Saturating
    /\ score_call.forecast_std = <<Real(6)>>
    /\ score_call.volatility = Real(10)
    /\ score_call.accuracy_metrics.mape = Real(60)


(* C2 as stated: a response produced on the fallback path carries no       *)
(* accuracy metrics, whatever the backtest did.                            *)
C2_FallbackHasNoMetrics ==
    (PredictReturned /\ path = "fallback")
        => result.response.accuracy_metrics = None

ProviderErrors == {"get_historical", "get_live_price"}

(* C3 as stated: the only failure an exposed operation lets through is a   *)
(* provider failure.                                                       *)
C3_OnlyProviderFailures ==
    (pc = "done" /\ op \in Ops /\ result.status = "raised")
        => result.error \in ProviderErrors

(* C4: predict_price returns exactly `steps` forecast points, dated on     *)
(* consecutive calendar days, the first the day after the last date of the *)
(* returned historical window, on the model path and on the fallback path. *)
C4_ForecastDates ==
    PredictReturned =>
        /\ Len(Forecast) = steps
        /\ \A i \in 1..Len(Forecast) :
              Forecast[i].date
                = result.response.historical[Len(result.response.historical)].date + i
        /\ \A i \in 1..(Len(Forecast) - 1) : Forecast[i + 1].date = Forecast[i].date + 1

C4_Witness ==
    /\ PredictReturned
    /\ path = "fallback"
    /\ steps = SummarySteps
    /\ Len(result.response.historical) = WindowSize
    /\ Forecast[1].date = LastDay + 1
    /\ Forecast[SummarySteps].date = LastDay + SummarySteps

Abs(x) == IF x < 0 THEN 0 - x ELSE x

(* C7: when both fits succeed, at every step the forecast price is the     *)
(* mean of the two point estimates, the bounds are the means of the two    *)
(* models' bounds and std_dev is half the absolute difference of the two   *)
(* point estimates.                                                        *)
C7_EnsembleIsMean ==
    (PredictReturned /\ path = "model") =>
        \A i \in 1..steps :
            /\ 2 * Forecast[i].price
                 = models.arima.predicted_mean[i] + models.sarima.predicted_mean[i]
            /\ 2 * Forecast[i].lower_bound
                 = models.arima.ci_lower[i] + models.sarima.ci_lower[i]
            /\ 2 * Forecast[i].upper_bound
                 = models.arima.ci_upper[i] + models.sarima.ci_upper[i]
            /\ 2 * Forecast[i].std_dev
                 = Abs(models.arima.predicted_mean[i] - models.sarima.predicted_mean[i])

C7_Witness ==
    /\ PredictReturned
    /\ path = "model"
    /\ steps = 2
    /\ models.arima.predicted_mean[2] # models.sarima.predicted_mean[2]
    /\ Forecast[2].std_dev > 0

LastPrice == historical[Len(historical)].price

LastFive == Prices(SeqTail(historical, 5))

WindowStd == FStd(Prices(historical), 1)

(* C8: on the fallback path the price at step i is                         *)
(* last_price + i * (last_price - mean of the last 5 window points) / 10,  *)
(* the bounds are price -/+ 1.96 * std with std the standard deviation of  *)
(* the window, and std_dev = std, so every step has the same width.        *)
C8_FallbackProjection ==
    (PredictReturned /\ path = "fallback") =>
        \A i \in 1..steps :
            /\ Forecast[i].price
                 = LastPrice
                   + i * ((LastPrice - SumRange(LastFive, 1, Len(LastFive))
                                         \div Len(LastFive)) \div 10)
            /\ Forecast[i].std_dev = WindowStd
            /\ IF IsNaN(WindowStd)
               THEN IsNaN(Forecast[i].lower_bound) /\ IsNaN(Forecast[i].upper_bound)
               ELSE /\ Forecast[i].lower_bound
                         = Forecast[i].price - (196 * WindowStd) \div 100
                    /\ Forecast[i].upper_bound
                         = Forecast[i].price + (196 * WindowStd) \div 100
                    /\ Forecast[i].upper_bound - Forecast[i].lower_bound
                         = 2 * ((196 * WindowStd) \div 100)

(* a window whose last price is off its 5-point average and that varies *)
C8_Witness ==
    /\ PredictReturned
    /\ path = "fallback"
    /\ steps = 2
    /\ Forecast[2].price # Forecast[1].price
    /\ Forecast[1].std_dev > 0
    /\ Forecast[1].upper_bound > Forecast[1].lower_bound

ProducedForecast(i) ==
    IF path = "model"
    THEN [price |-> EnsembleMean(models.arima.predicted_mean,
                                 models.sarima.predicted_mean)[i],
          lower_bound |-> EnsembleMean(models.arima.ci_lower, models.sarima.ci_lower)[i],
          upper_bound |-> EnsembleMean(models.arima.ci_upper, models.sarima.ci_upper)[i],
          std_dev |-> EnsembleStd(models.arima.predicted_mean,
                                  models.sarima.predicted_mean)[i]]
    ELSE [price |-> FallbackForecast(historical, steps)[i],
          lower_bound |-> FallbackLower(FallbackForecast(historical, steps),
                                        HistoricalStd(historical))[i],
          upper_bound |-> FallbackUpper(FallbackForecast(historical, steps),
                                        HistoricalStd(historical))[i],
          std_dev |-> HistoricalStd(historical)]

(* C9: when the test split is empty or the backtest raises, predict_price  *)
(* still returns; the response has no accuracy metrics and its forecast    *)
(* points are the ones the forecaster produced before the backtest.        *)
C9_BacktestFailureIsLocal ==
    (pc = "done" /\ op \in {"predict_price", "get_prediction_summary"}
       /\ backtest # None /\ backtest.outcome \in {"raised", "empty"}) =>
        /\ result.status = "returned"
        /\ result.response.accuracy_metrics = None
        /\ Len(Forecast) = steps
        /\ \A i \in 1..steps :
              /\ Forecast[i].price = final_fc[i]
              /\ Forecast[i].lower_bound = lower_bound[i]
              /\ Forecast[i].upper_bound = upper_bound[i]
              /\ Forecast[i].std_dev = forecast_std[i]
              /\ Forecast[i].price = ProducedForecast(i).price
              /\ Forecast[i].lower_bound = ProducedForecast(i).lower_bound
              /\ Forecast[i].upper_bound = ProducedForecast(i).upper_bound
              /\ Forecast[i].std_dev = ProducedForecast(i).std_dev

C9_Witness ==
    /\ PredictReturned
    /\ path = "model"
    /\ backtest.outcome = "raised"
    /\ backtest.stage = "metrics"
    /\ result.response.accuracy_metrics = None
    /\ Len(Forecast) = 2

(* C10: the backtest cuts the window of n points into the prefix of        *)
(* floor(0.8 * n) points and the suffix of the others, in window order,    *)
(* with nothing dropped or repeated; the refits see the prefix only, the   *)
(* test forecast has len(test) steps and test_size = len(test); n = 120    *)
(* gives 96 and 24.                                                        *)
C10_BacktestSplit ==
    (pc = "done" /\ backtest # None) =>
        LET n == Len(historical)
            k == (4 * n) \div 5
        IN  /\ Len(backtest.refit_on) = k
            /\ \A i \in 1..k : backtest.refit_on[i] = historical[i]
            /\ backtest.test_steps = n - k
            /\ Len(TrainOf(historical)) = k
            /\ TrainOf(historical) \o TestOf(historical) = historical
            /\ backtest.outcome = "ok"
                 => /\ accuracy_metrics.test_size = n - k
                    /\ result.response.accuracy_metrics.test_size = Len(TestOf(historical))
            /\ n = 120 => (Len(backtest.refit_on) = 96 /\ backtest.test_steps = 24)

C10_Witness ==
    /\ PredictReturned
    /\ Len(historical) = 120
    /\ backtest.outcome = "ok"
    /\ Len(backtest.refit_on) = 96
    /\ result.response.accuracy_metrics.test_size = 24

ExpectedOrders(bundle) ==
    [arima_order |-> IF bundle \in {"both", "order_only"}
                     THEN BundleOrder ELSE DefaultOrder,
     sarima_seasonal |-> IF bundle \in {"both", "seasonal_only"}
                         THEN BundleSeasonal ELSE DefaultSeasonal]

(* C11: a missing, corrupt or non-mapping bundle gives the default orders  *)
(* (5,1,0) and (1,1,1,5) and never fails the request; a bundle lacking one *)
(* key gives the default for that key only; the orders loaded are the ones *)
(* both fits and both refits are built with and the ones model_info shows. *)
C11_BundleDefaults ==
    /\ orders # None =>
         /\ orders.arima_order = ExpectedOrders(orders.bundle).arima_order
         /\ orders.sarima_seasonal = ExpectedOrders(orders.bundle).sarima_seasonal
         /\ orders.bundle \in {"missing", "corrupt", "not_a_mapping", "empty"}
              => /\ orders.arima_order = <<5, 1, 0>>
                 /\ orders.sarima_seasonal = <<1, 1, 1, 5>>
    /\ (orders # None /\ models # None) =>
         /\ models.order = orders.arima_order
         /\ models.seasonal_order = orders.sarima_seasonal
    /\ (orders # None /\ backtest # None) =>
         /\ backtest.order = orders.arima_order
         /\ backtest.seasonal_order = orders.sarima_seasonal
    /\ PredictReturned =>
         /\ result.response.model_info.arima_order = orders.arima_order
         /\ result.response.model_info.sarima_seasonal_order = orders.sarima_seasonal
    /\ (pc = "done" /\ op \in Ops /\ result.status = "raised")
         => result.error \in ProviderErrors \cup FitStages

C11_Witness ==
    /\ PredictReturned
    /\ orders.bundle = "order_only"
    /\ backtest.outcome = "ok"
    /\ result.response.model_info.arima_order = BundleOrder
    /\ result.response.model_info.sarima_seasonal_order = DefaultSeasonal

FitRaised == models # None /\ "raised" \in DOMAIN models

(* C12: if either fit or a forecast extraction raises, every price, bound  *)
(* and std_dev of the response is the trend-projection fallback's and none *)
(* is the surviving model's; the fallback is taken in that case only.      *)
C12_AllOrNothing ==
    /\ (op \in {"predict_price", "get_prediction_summary"} /\ models # None)
         => (path = "fallback" <=> FitRaised)
    /\ (PredictReturned /\ FitRaised) =>
         \A i \in 1..steps :
            /\ Forecast[i].price = FallbackForecast(historical, steps)[i]
            /\ Forecast[i].lower_bound
                 = FSub(Forecast[i].price, FallbackHalfWidth(HistoricalStd(historical)))
            /\ Forecast[i].upper_bound
                 = FAdd(Forecast[i].price, FallbackHalfWidth(HistoricalStd(historical)))
            /\ Forecast[i].std_dev = HistoricalStd(historical)
    /\ (PredictReturned /\ ~FitRaised) =>
         \A i \in 1..steps :
            2 * Forecast[i].price
              = models.arima.predicted_mean[i] + models.sarima.predicted_mean[i]

(* the non-seasonal fit had succeeded and its forecast differs from the    *)
(* one returned                                                            *)
C12_Witness ==
    /\ PredictReturned
    /\ FitRaised
    /\ models.raised = "sarima_fit"
    /\ models.arima.predicted_mean[1] # Forecast[1].price
    /\ Forecast[1].price = LastPrice + (LastPrice - SumRange(LastFive, 1, Len(LastFive))
                                                      \div Len(LastFive)) \div 10

SummaryDone == pc = "done" /\ op = "get_prediction_summary"

(* C13: get_prediction_summary projects the response of                    *)
(* predict_price(symbol, steps=5): current price, step-1 price, step-5     *)
(* (last) price, trend direction and confidence score; it raises exactly   *)
(* when that call raises, and otherwise returns.                           *)
C13_SummaryIsProjection ==
    /\ (SummaryDone /\ result.status = "returned") =>
         /\ steps = SummarySteps
         /\ Len(Forecast) = SummarySteps
         /\ result.summary # None
         /\ result.summary.current_price = live_price
         /\ result.summary.current_price = result.response.live_price
         /\ result.summary.next_day_prediction = Forecast[1].price
         /\ result.summary.week_prediction = Forecast[SummarySteps].price
         /\ result.summary.trend = result.response.trend.direction
         /\ result.summary.confidence = result.response.confidence_score
    /\ SummaryDone =>
         /\ result.status \in {"returned", "raised"}
         /\ result.status = "raised" <=> path = "none"
         /\ result.status = "raised" => result.error \in ProviderErrors
    /\ (pc = "done" /\ op = "predict_price" /\ result.status = "returned")
         => result.summary = None

C13_Witness ==
    /\ SummaryDone
    /\ result.status = "returned"
    /\ result.summary.week_prediction = final_fc[5]
    /\ result.summary.week_prediction # result.summary.next_day_prediction
    /\ result.summary.trend = "down"

(* the window the claim describes for a provider series: its most recent   *)
(* points in their order, then the live price as the newest point          *)
IsWindowOf(w, provided, live) ==
    LET n == Len(provided)
        kept == Len(w) - 1
    IN  /\ Len(w) = Min2(n + 1, WindowSize)
        /\ w[Len(w)].price = live
        /\ \A i \in 1..kept : w[i] = provided[n - kept + i]
        /\ \A i \in 1..kept : w[i].ts < w[i + 1].ts

(* C14 as stated: after the fetch of predict_price and compare_models the  *)
(* window is the provider series with the live price appended as its       *)
(* newest point, cut to the most recent 120: min(n + 1, 120) points, the   *)
(* last one the live price, the others the latest provider points in       *)
(* order, timestamps strictly increasing.                                  *)
C14_WindowIsAppendThenTail ==
    pc = "loaded" =>
        \E n \in ProviderLens, f \in PriceShapes :
            IsWindowOf(historical, ProviderSeries(n, f), live_price)

IndicatorsReturned == pc = "done" /\ op = "_calculate_indicators"

ReturnedRsi == result.indicators.rsi

(* C15: every value of indicators.rsi lies in [0, 100] for a series of at  *)
(* least 14 points, also where the 14-period average loss is zero (the     *)
(* average gain positive or zero), and the entries before a full window    *)
(* are 0; there is one value per point of the series.                      *)
C15_RsiInRange ==
    (IndicatorsReturned /\ Len(historical) >= RsiWindow) =>
        /\ Len(ReturnedRsi) = Len(historical)
        /\ \A i \in 1..Len(ReturnedRsi) : InRange(ReturnedRsi[i])
        /\ \A i \in 1..(RsiWindow - 1) : ReturnedRsi[i] = 0

(* a flat series whose last point rises: zero average loss with zero and   *)
(* with positive average gain, after the leading entries                   *)
C15_Witness ==
    /\ IndicatorsReturned
    /\ Len(historical) > RsiWindow
    /\ AvgLoss(Prices(historical))[RsiWindow] = 0
    /\ AvgGain(Prices(historical))[RsiWindow] = 0
    /\ ReturnedRsi[RsiWindow] = 0
    /\ AvgLoss(Prices(historical))[Len(historical)] = 0
    /\ AvgGain(Prices(historical))[Len(historical)] > 0
    /\ ReturnedRsi[Len(historical)] = Real(100)
    /\ ReturnedRsi[1] = 0

(* C16 as stated: a second predict_price call with the same provider       *)
(* series, live price, steps and bundle returns the forecast list of the   *)
(* first (dates, prices, bounds, std_dev).                                 *)
C16_RepeatIsIdentical ==
    (PredictReturned /\ earlier # None) => Forecast = earlier.forecast

(* a <= b as floats compare: false when either side is NaN *)
FLe(a, b) == ~IsNaN(a) /\ ~IsNaN(b) /\ a <= b

Brackets(m) ==
    \A i \in 1..Len(m.predicted_mean) :
        /\ FLe(m.ci_lower[i], m.predicted_mean[i])
        /\ FLe(m.predicted_mean[i], m.ci_upper[i])

(* C17 as stated: every returned forecast point has                        *)
(* lower_bound <= price <= upper_bound, on the model path when each        *)
(* model's interval brackets its own estimate, on the fallback path        *)
(* always.                                                                 *)
C17_BoundsBracketPrice ==
    (/\ PredictReturned
     /\ path = "model" => (Brackets(models.arima) /\ Brackets(models.sarima)))
        => \A i \in 1..Len(Forecast) :
              /\ FLe(Forecast[i].lower_bound, Forecast[i].price)
              /\ FLe(Forecast[i].price, Forecast[i].upper_bound)

====
